---------------------------- MODULE Spec2Model ----------------------------
(***************************************************************************)
(* Model of netflix_data_analysis.py: a Streamlit script that is re-run    *)
(* from top to bottom on every interaction.  Each run calls the memoised   *)
(* load_data() and then executes the branch of the selected view.          *)
(*                                                                         *)
(* Text is modelled by what the code does with it:                         *)
(*   - type, title, director, country, rating are strings; the empty       *)
(*     string is an empty CSV cell, which pd.read_csv reads as NaN;        *)
(*   - listed_in is a sequence of one-character strings (so that           *)
(*     str.split(",") can be computed); the empty sequence is NaN;         *)
(*   - date_added is the cell text "m/d/y" as a sequence of three digit    *)
(*     sequences; the empty sequence is NaN.                               *)
(* A parsed timestamp is <<year, month, day>>; NaT is <<>>.  A float       *)
(* column value is <<v>>; NaN is <<>>.                                     *)
(***************************************************************************)
EXTENDS Integers, Sequences, FiniteSets, TLC

VARIABLES
    csv,              \* rows of netflix1.csv (never written by the program)
    cache,            \* st.cache_data's memo for load_data: <<>> or <<table>>
    data,             \* the module-level `data` of the latest run
    loads,            \* how many times the body of load_data has been entered
    analysis_option,  \* the selectbox value of the latest run
    out,              \* what the latest run computed and handed to the charts
    error             \* the exception that ended the latest run, "" if none

vars == <<csv, cache, data, loads, analysis_option, out, error>>

---------------------------------------------------------------------------
(* Bounds of the model. *)

MaxRows == 3
MaxKeys == 16
MaxHeavy == 2
MaxUnknown == 2
MaxLoads == 3
MaxNeg == 2

(* Constants of the program. *)

SliderMin == 5
SliderMax == 20
SliderDefault == 10
RatingTop == 10
DirectorTop == 15
CountryTop == 15

Comma == ","
Unknown == "Unknown"
Movie == "Movie"
TVShow == "TV Show"
NaN == <<>>
NaT == <<>>
NaStr == ""

Overview == "Overview"
ContentAnalysis == "Content Analysis"
TrendsOverTime == "Trends Over Time"
DirectorsCreators == "Directors & Creators"
WordCloudAnalysis == "Word Cloud Analysis"

months == <<"Jan", "Feb", "Mar", "Apr", "May", "Jun",
            "Jul", "Aug", "Sep", "Oct", "Nov", "Dec">>

RawColumns == {"type", "title", "director", "country", "date_added",
               "rating", "listed_in"}
LoadColumns == RawColumns \cup {"year_added", "month_added", "genres"}

---------------------------------------------------------------------------
(* Sequence helpers. *)

Max(a, b) == IF a >= b THEN a ELSE b
Min(a, b) == IF a <= b THEN a ELSE b

Map(s, F(_)) == [i \in 1..Len(s) |-> F(s[i])]

RECURSIVE Flatten(_)
Flatten(ss) == IF ss = <<>> THEN <<>> ELSE Head(ss) \o Flatten(Tail(ss))

RECURSIVE Unique(_)
Unique(s) ==
    IF s = <<>> THEN <<>>
    ELSE LET front == SubSeq(s, 1, Len(s) - 1)
             last == s[Len(s)]
         IN IF \E j \in 1..Len(front) : front[j] = last
            THEN Unique(front)
            ELSE Append(Unique(front), last)

Occurrences(s, v) == Cardinality({i \in 1..Len(s) : s[i] = v})

---------------------------------------------------------------------------
(* pandas operations used by the script. *)

(* drop_duplicates as it would be with keep='last'. *)
RECURSIVE KeepLastOccurrence(_)
KeepLastOccurrence(rows) ==
    IF rows = <<>> THEN <<>>
    ELSE IF \E j \in 2..Len(rows) : rows[j] = Head(rows)
         THEN KeepLastOccurrence(Tail(rows))
         ELSE <<Head(rows)>> \o KeepLastOccurrence(Tail(rows))

(* DataFrame.drop_duplicates(): a row equal (on every column) to an earlier
   row is dropped; the first occurrence keeps its place. *)
RECURSIVE drop_duplicates(_)
drop_duplicates(rows) ==
    IF rows = <<>> THEN <<>>
    ELSE LET front == SubSeq(rows, 1, Len(rows) - 1)
             last == rows[Len(rows)]
         IN IF \E j \in 1..Len(front) : front[j] = last
            THEN drop_duplicates(front)
            ELSE Append(drop_duplicates(front), last)

(* The number a digit sequence denotes: "05" and "5" are both 5. *)
RECURSIVE ToInt(_)
ToInt(digits) ==
    IF digits = <<>> THEN 0
    ELSE 10 * ToInt(SubSeq(digits, 1, Len(digits) - 1)) + digits[Len(digits)]

(* Whether pd.to_datetime can parse a non-empty "m/d/y" cell.  Days are
   checked against 1..31 only; the inputs of the model use days up to 28. *)
Parsable(cell) ==
    /\ Len(cell) = 3
    /\ \A k \in 1..3 : cell[k] # <<>>
    /\ ToInt(cell[1]) \in 1..12
    /\ ToInt(cell[2]) \in 1..31
    /\ ToInt(cell[3]) >= 1

(* pd.to_datetime on one cell that it accepts: NaN becomes NaT. *)
to_datetime(cell) ==
    IF cell = NaN THEN NaT
    ELSE <<ToInt(cell[3]), ToInt(cell[1]), ToInt(cell[2])>>

(* Series.dt.year and Series.dt.month: NaN for NaT. *)
dt_year(ts) == IF ts = NaT THEN NaN ELSE <<ts[1]>>
dt_month(ts) == IF ts = NaT THEN NaN ELSE <<ts[2]>>

(* str.split(","): the pieces between the commas, nothing stripped. *)
RECURSIVE split(_)
split(x) ==
    IF \A i \in 1..Len(x) : x[i] # Comma THEN <<x>>
    ELSE LET i == CHOOSE k \in 1..Len(x) :
                      /\ x[k] = Comma
                      /\ \A j \in 1..(k - 1) : x[j] # Comma
         IN <<SubSeq(x, 1, i - 1)>> \o split(SubSeq(x, i + 1, Len(x)))

(* Stable sort of [key, count] entries by count, largest first. *)
RECURSIVE SortByCountDesc(_)
SortByCountDesc(s) ==
    IF s = <<>> THEN <<>>
    ELSE LET t == SortByCountDesc(SubSeq(s, 1, Len(s) - 1))
             e == s[Len(s)]
             k == Cardinality({i \in 1..Len(t) : t[i].count >= e.count})
         IN SubSeq(t, 1, k) \o <<e>> \o SubSeq(t, k + 1, Len(t))

(* Series.value_counts() of values that hold no NaN: one entry per distinct
   value with its number of occurrences, largest count first, values of
   equal count in the order they first appear. *)
CountsUnsorted(values) ==
    Map(Unique(values), LAMBDA v : [key |-> v, count |-> Occurrences(values, v)])

value_counts(values) == SortByCountDesc(CountsUnsorted(values))

(* value_counts() drops NaN (dropna=True is its default). *)
DropNaStr(col) == SelectSeq(col, LAMBDA v : v # NaStr)
DropNaNum(col) == Map(SelectSeq(col, LAMBDA v : v # NaN), LAMBDA v : v[1])

(* Series.sort_index() of a value_counts() result with integer keys. *)
RECURSIVE sort_index(_)
sort_index(s) ==
    IF s = <<>> THEN <<>>
    ELSE LET t == sort_index(SubSeq(s, 1, Len(s) - 1))
             e == s[Len(s)]
             k == Cardinality({i \in 1..Len(t) : t[i].key <= e.key})
         IN SubSeq(t, 1, k) \o <<e>> \o SubSeq(t, k + 1, Len(t))

(* head with an off-by-one slice. *)
HeadOneMore(s, n) ==
    IF n >= 0 THEN SubSeq(s, 1, Min(n + 1, Len(s)))
    ELSE SubSeq(s, 1, Max(0, Len(s) + n + 1))

(* Series.head(n): the first n entries; for a negative n, all but the last
   -n entries. *)
head(s, n) ==
    IF n >= 0 THEN SubSeq(s, 1, Min(n, Len(s)))
    ELSE SubSeq(s, 1, Max(0, Len(s) + n))

Col(df, c) == [i \in 1..Len(df.rows) |-> df.rows[i][c]]
values(s) == [i \in 1..Len(s) |-> s[i].count]


---------------------------------------------------------------------------
(* load_data: lines 47-59. *)

NoData == [columns |-> {}, rows |-> <<>>]

(* One row after lines 54-57: date_added is replaced by its timestamp,
   year_added, month_added and genres are added. *)
Prepare(r) ==
    LET ts == to_datetime(r.date_added)
    IN [type |-> r.type, title |-> r.title, director |-> r.director,
        country |-> r.country, date_added |-> ts, rating |-> r.rating,
        listed_in |-> r.listed_in, year_added |-> dt_year(ts),
        month_added |-> dt_month(ts), genres |-> split(r.listed_in)]

(* The body of load_data.  pd.to_datetime is called with its default
   errors='raise', so one unparsable cell raises ValueError for the whole
   column; x.split on a NaN (a float) raises AttributeError. *)
load_data(file) ==
    LET rows == drop_duplicates(file)
    IN IF \E i \in 1..Len(rows) :
              rows[i].date_added # NaN /\ ~Parsable(rows[i].date_added)
       THEN [exc |-> "ValueError", df |-> NoData]
       ELSE IF \E i \in 1..Len(rows) : rows[i].listed_in = NaN
       THEN [exc |-> "AttributeError", df |-> NoData]
       ELSE [exc |-> "", df |-> [columns |-> LoadColumns, rows |-> Map(rows, Prepare)]]

(* @st.cache_data: a miss runs the body and, unless it raises, stores the
   result; a hit returns a copy of the stored value without running the
   body.  Nothing in the script clears or expires the entry. *)
cached_load(entry, file) ==
    IF entry # <<>>
    THEN [hit |-> TRUE, exc |-> "", df |-> entry[1]]
    ELSE LET r == load_data(file) IN [hit |-> FALSE, exc |-> r.exc, df |-> r.df]

(* A memo that hands out the stored object itself, as st.cache_resource
   does: what the run does to its table is done to the stored value. *)
StoreReference(loaded, final) == <<final>>

(* What the memo holds after a run that loaded `loaded` and left its own
   table as `final`: the caller only ever holds a copy, so what it does to
   its table does not reach the stored value. *)
StoreCopy(loaded, final) == <<loaded>>

---------------------------------------------------------------------------
(* The five views. Each yields what it computed (out), the run's table
   afterwards (data) and the exception that ended it (exc, "" if none). *)

(* The values a top-N chart counts: a column without its NaN, or the
   concatenation sum(data['genres'], []) of all genre lists. *)
KeyValues(df, column) ==
    IF column = "genres" THEN Flatten(Col(df, "genres"))
    ELSE DropNaStr(Col(df, column))

(* value_counts().head(n): lines 115, 136 and 143, 214, 231. *)
top_counts(df, column, n) == head(value_counts(KeyValues(df, column)), n)

CountWhere(df, P(_)) == Cardinality({i \in 1..Len(df.rows) : P(df.rows[i])})

SeqMax(s) == CHOOSE m \in {s[i] : i \in 1..Len(s)} : \A i \in 1..Len(s) : s[i] <= m

(* Series.max() skips NaN and is NaN for a column without values. *)
series_max(col) ==
    LET present == DropNaNum(col)
    IN IF present = <<>> THEN NaN ELSE <<SeqMax(present)>>

(* The overview with "Movies" counting every title that is not a TV show. *)
OverviewCountingOthers(df) ==
    [out |-> [total_content |-> Len(df.rows),
              movies_count |-> CountWhere(df, LAMBDA r : r.type # TVShow),
              tv_shows_count |-> CountWhere(df, LAMBDA r : r.type = TVShow),
              latest_year |-> series_max(Col(df, "year_added")),
              type_counts |-> value_counts(DropNaStr(Col(df, "type"))),
              rating_counts |-> top_counts(df, "rating", RatingTop)],
     data |-> df,
     exc |-> ""]

(* Lines 73-125. *)
OverviewView(df) ==
    [out |-> [total_content |-> Len(df.rows),
              movies_count |-> CountWhere(df, LAMBDA r : r.type = Movie),
              tv_shows_count |-> CountWhere(df, LAMBDA r : r.type = TVShow),
              latest_year |-> series_max(Col(df, "year_added")),
              type_counts |-> value_counts(DropNaStr(Col(df, "type"))),
              rating_counts |-> top_counts(df, "rating", RatingTop)],
     data |-> df,
     exc |-> ""]

(* Lines 128-159.  genre_counts.index[0] raises IndexError on an empty
   Series, after the bar chart has been drawn.  The average of line 159 is
   text only and cannot raise once line 158 has passed. *)
ContentView(df, top_n) ==
    LET all_genres == KeyValues(df, "genres")
        genre_counts == value_counts(all_genres)
        top_genres == top_counts(df, "genres", top_n)
    IN [out |-> [top_n |-> top_n,
                 genre_counts |-> genre_counts,
                 top_genres |-> top_genres,
                 unique_genres |-> Len(genre_counts),
                 most_popular |-> IF genre_counts = <<>> THEN <<>>
                                  ELSE <<genre_counts[1]>>],
        data |-> df,
        exc |-> IF genre_counts = <<>> THEN "IndexError" ELSE ""]

(* px.bar(x=..., y=...): plotly express raises ValueError when its array
   arguments differ in length; otherwise bar i pairs x[i] with y[i]. *)
px_bar(x, y) ==
    IF Len(x) # Len(y) THEN [exc |-> "ValueError", bars |-> <<>>]
    ELSE [exc |-> "", bars |-> [i \in 1..Len(x) |-> [x |-> x[i], y |-> y[i]]]]

(* DataFrame.groupby(['year_added', 'type']).size(): one count per pair
   occurring in the table; rows with NaN in either key are left out
   (dropna=True is the default).  The order of the result rows is not
   modelled. *)
groupby_size(df) ==
    LET grouped == {i \in 1..Len(df.rows) :
                        df.rows[i].year_added # NaN /\ df.rows[i].type # NaStr}
    IN {[year_added |-> df.rows[i].year_added[1],
         type |-> df.rows[i].type,
         count |-> Cardinality({j \in grouped :
                       /\ df.rows[j].year_added = df.rows[i].year_added
                       /\ df.rows[j].type = df.rows[i].type})] : i \in grouped}

(* Lines 162-207.  The yearly chart is drawn first; an exception of the
   monthly chart ends the run before yearly_by_type is computed. *)
TrendsView(df) ==
    LET yearly_trend == sort_index(value_counts(DropNaNum(Col(df, "year_added"))))
        monthly_trend == sort_index(value_counts(DropNaNum(Col(df, "month_added"))))
        fig_monthly == px_bar(months, values(monthly_trend))
    IN [out |-> [yearly_trend |-> yearly_trend,
                 monthly_trend |-> monthly_trend,
                 fig_monthly |-> fig_monthly.bars,
                 yearly_by_type |-> IF fig_monthly.exc = "" THEN groupby_size(df)
                                    ELSE {}],
        data |-> df,
        exc |-> fig_monthly.exc]

(* Lines 210-240.  The 15 most frequent directors are taken first and
   'Unknown' is removed from them afterwards. *)
DirectorsView(df) ==
    LET top == top_counts(df, "director", DirectorTop)
    IN [out |-> [director_counts |-> SelectSeq(top, LAMBDA e : e.key # Unknown),
                 country_data |-> top_counts(df, "country", CountryTop)],
        data |-> df,
        exc |-> ""]

TitlesOf(df, t) ==
    DropNaStr(Map(SelectSeq(df.rows, LAMBDA r : r.type = t), LAMBDA r : r.title))

(* Series.str.len(): NaN for NaN. *)
str_len(title) == IF title = NaStr THEN NaN ELSE <<Len(title)>>

WithTitleLength(r) ==
    [type |-> r.type, title |-> r.title, director |-> r.director,
     country |-> r.country, date_added |-> r.date_added, rating |-> r.rating,
     listed_in |-> r.listed_in, year_added |-> r.year_added,
     month_added |-> r.month_added, genres |-> r.genres,
     title_length |-> str_len(r.title)]

(* Lines 243-306.  The word clouds (rendering, not modelled) are drawn from
   the joined titles when there are any; line 286 then assigns a new column
   to the run's table.  The .str accessor raises AttributeError on a column
   that read_csv typed as float, which is a title column with rows but no
   value. *)
WordCloudView(df) ==
    LET no_str == df.rows # <<>> /\ \A i \in 1..Len(df.rows) : df.rows[i].title = NaStr
        after == [columns |-> df.columns \cup {"title_length"},
                  rows |-> Map(df.rows, WithTitleLength)]
    IN [out |-> [movie_titles |-> TitlesOf(df, Movie),
                 tv_titles |-> TitlesOf(df, TVShow),
                 movie_lengths |-> IF no_str THEN <<>>
                     ELSE Map(SelectSeq(after.rows, LAMBDA r : r.type = Movie),
                              LAMBDA r : r.title_length),
                 tv_lengths |-> IF no_str THEN <<>>
                     ELSE Map(SelectSeq(after.rows, LAMBDA r : r.type = TVShow),
                              LAMBDA r : r.title_length)],
        data |-> IF no_str THEN df ELSE after,
        exc |-> IF no_str THEN "AttributeError" ELSE ""]

View(option, df, top_n) ==
    CASE option = Overview -> OverviewView(df)
      [] option = ContentAnalysis -> ContentView(df, top_n)
      [] option = TrendsOverTime -> TrendsView(df)
      [] option = DirectorsCreators -> DirectorsView(df)
      [] option = WordCloudAnalysis -> WordCloudView(df)


---------------------------------------------------------------------------
(* The contents of netflix1.csv: line 49 reads whatever the file holds. *)

Row(type, title, director, country, date_added, rating, listed_in) ==
    [type |-> type, title |-> title, director |-> director,
     country |-> country, date_added |-> date_added, rating |-> rating,
     listed_in |-> listed_in]

RECURSIVE Digits(_)
Digits(n) == IF n < 10 THEN <<n>> ELSE Digits(n \div 10) \o <<n % 10>>

DateCell(m, d, y) == <<Digits(m), Digits(d), Digits(y)>>

(* Rows that differ in the ways the script is sensitive to: two spellings
   of one date, an empty and an unparsable date, an empty type, title,
   country and listed_in, a third type value, the 'Unknown' director, a
   genre after a comma and a blank. *)
SmallRows ==
    { Row(Movie, "Up", "A", "US", DateCell(5, 1, 2019), "PG", <<"D", ",", " ", "C">>),
      Row(Movie, "Up", "A", "US", <<<<0, 5>>, <<0, 1>>, <<2, 0, 1, 9>>>>, "PG",
          <<"D", ",", " ", "C">>),
      Row(TVShow, "Lost", Unknown, "UK", NaN, "TV-MA", <<"C">>),
      Row(Movie, "Heat", "B", "US", DateCell(13, 1, 2019), "R", <<"D">>),
      Row(NaStr, "Solo", "A", NaStr, DateCell(1, 2, 2020), "PG", <<"C">>),
      Row("Special", "Gala", "B", "UK", DateCell(1, 2, 2020), "R", <<"C", ",", "D">>),
      Row(Movie, "Jaws", "B", "UK", DateCell(9, 25, 2021), "R", NaN),
      Row(TVShow, NaStr, Unknown, "US", DateCell(12, 1, 2020), "TV-MA", <<"D">>) }

RECURSIVE SeqsUpTo(_, _)
SeqsUpTo(S, n) ==
    IF n = 0 THEN {<<>>}
    ELSE LET shorter == SeqsUpTo(S, n - 1)
         IN shorter \cup {Append(t, r) : t \in shorter, r \in S}

SmallTables == SeqsUpTo(SmallRows, MaxRows)

Letters == <<"A", "B", "C", "D", "E", "F", "G", "H", "I", "J", "K", "L", "M",
             "N", "O", "P", "Q", "R", "S", "T", "U", "V", "W", "X", "Y", "Z">>

(* Row i of a catalogue with many distinct keys: its own director, country,
   rating and genre, and month ((i - 1) mod 12) + 1. *)
KeyRow(i, title) ==
    Row(IF i % 2 = 1 THEN Movie ELSE TVShow, title, Letters[i], Letters[i],
        DateCell(((i - 1) % 12) + 1, 1, 2019 + ((i - 1) \div 12)), Letters[i],
        <<Letters[i]>>)

(* k rows with k distinct keys, then h further titles under the last h of
   these keys (so the most frequent keys are not the first ones seen), then
   u titles whose director is 'Unknown'. *)
WideTable(k, h, u) ==
    [i \in 1..k |-> KeyRow(i, Letters[i])]
    \o [j \in 1..Min(h, k) |-> KeyRow(k - j + 1, "Sequel")]
    \o [j \in 1..u |-> Row(Movie, "Anon", Unknown, Letters[j], NaN, Letters[j],
                           <<Letters[j]>>)]

WideTables ==
    {WideTable(k, h, u) : k \in 0..MaxKeys, h \in 0..MaxHeavy, u \in 0..MaxUnknown}

Tables == SmallTables \cup WideTables

---------------------------------------------------------------------------
(* The script as a state machine: one action per selectbox value, each a
   whole run of the script. *)

NoOut == <<>>

Init ==
    /\ csv \in Tables
    /\ cache = <<>>
    /\ data = NoData
    /\ loads = 0
    /\ analysis_option = Overview
    /\ out = NoOut
    /\ error = ""

(* Lines 61-306 with `option` selected.  An exception in load_data ends the
   run at line 61: nothing is stored, and the selectbox of line 67 is never
   drawn. *)
RunScript(option, top_n) ==
    LET r == cached_load(cache, csv)
    IN /\ cache # <<>> \/ loads < MaxLoads
       /\ loads' = IF r.hit THEN loads ELSE loads + 1
       /\ csv' = csv
       /\ IF r.exc # ""
          THEN /\ cache' = cache
               /\ data' = NoData
               /\ out' = NoOut
               /\ error' = r.exc
               /\ analysis_option' = analysis_option
          ELSE LET v == View(option, r.df, top_n)
               IN /\ cache' = StoreCopy(r.df, v.data)
                  /\ data' = v.data
                  /\ out' = v.out
                  /\ error' = v.exc
                  /\ analysis_option' = option

(* The first run and every rerun with the first option selected. *)
SelectOverview == RunScript(Overview, SliderDefault)

(* The slider (5 to 20) starts at 10 when the view is entered and can be
   moved while the view is shown.  The model moves it to its two ends and
   back to its start. *)
SliderPositions == {SliderMin, SliderDefault, SliderMax}

SelectContentAnalysis ==
    /\ cache # <<>>
    /\ \E top_n \in (IF analysis_option = ContentAnalysis
                     THEN SliderPositions ELSE {SliderDefault}) :
           RunScript(ContentAnalysis, top_n)

SelectTrendsOverTime == cache # <<>> /\ RunScript(TrendsOverTime, SliderDefault)

SelectDirectorsCreators == cache # <<>> /\ RunScript(DirectorsCreators, SliderDefault)

SelectWordCloudAnalysis == cache # <<>> /\ RunScript(WordCloudAnalysis, SliderDefault)

Next ==
    \/ SelectOverview
    \/ SelectContentAnalysis
    \/ SelectTrendsOverTime
    \/ SelectDirectorsCreators
    \/ SelectWordCloudAnalysis

Spec == Init /\ [][Next]_vars


---------------------------------------------------------------------------
(* The top-N queries as functions of N: value_counts().head(N) applied to
   the loaded table for N below, inside and above the values the script
   passes. *)

TopNColumns == {"rating", "genres", "director", "country"}

TopNValues ==
    ((0 - MaxNeg)..1) \cup {SliderMin, RatingTop, DirectorTop, SliderMax}

InitTopN ==
    /\ csv \in {t \in Tables : load_data(t).exc = ""}
    /\ cache = <<load_data(csv).df>>
    /\ data = load_data(csv).df
    /\ loads = 1
    /\ analysis_option = Overview
    /\ out = NoOut
    /\ error = ""

TopNQuery(column, n) ==
    /\ out = NoOut
    /\ out' = [column |-> column, n |-> n, result |-> top_counts(data, column, n)]
    /\ UNCHANGED <<csv, cache, data, loads, analysis_option, error>>

NextTopN == \E column \in TopNColumns, n \in TopNValues : TopNQuery(column, n)

SpecTopN == InitTopN /\ [][NextTopN]_vars


---------------------------------------------------------------------------
(* Vocabulary of the properties. *)

Loaded == cache # <<>>

Rows == cache[1].rows

RECURSIVE SumSeq(_)
SumSeq(s) == IF s = <<>> THEN 0 ELSE Head(s) + SumSeq(Tail(s))

(* The indices of the rows of the file that repeat no earlier row. *)
FirstOccurrences == {i \in 1..Len(csv) : \A j \in 1..(i - 1) : csv[j] # csv[i]}

(* Entries of a counted sequence: distinct keys, largest count first. *)
Descending(res) ==
    \A i, j \in 1..Len(res) :
        i < j => res[i].key # res[j].key /\ res[i].count >= res[j].count

(* C1 (as amended): the prepared table holds exactly one row for each
   distinct row of the file, in the order of first occurrence, so the
   record count is the number of distinct rows of the file however often a
   row is repeated. *)
C1_OneRowPerDistinctRawRow ==
    Loaded =>
        /\ Len(Rows) = Cardinality({csv[i] : i \in 1..Len(csv)})
        /\ \A i \in FirstOccurrences :
               Rows[Cardinality({j \in FirstOccurrences : j <= i})] = Prepare(csv[i])

(* C1 (as claimed): in addition, no two rows of the prepared table are
   equal on all raw columns. *)
C1_NoTwoRowsEqualOnRawColumns ==
    Loaded =>
        /\ \A i, j \in 1..Len(Rows) :
               i # j => \E c \in RawColumns : Rows[i][c] # Rows[j][c]
        /\ Len(Rows) = Cardinality({csv[i] : i \in 1..Len(csv)})

(* C1 witness: a file a, b, a was loaded and two records remain. *)
C1_Witness ==
    /\ Loaded
    /\ Len(csv) = 3
    /\ csv[1] = csv[3]
    /\ csv[1] # csv[2]
    /\ Len(Rows) = 2

Trimmed(g) == g = <<>> \/ (g[1] # " " /\ g[Len(g)] # " ")

RECURSIVE Strip(_)
Strip(g) ==
    IF g = <<>> THEN g
    ELSE IF g[1] = " " THEN Strip(Tail(g))
    ELSE IF g[Len(g)] = " " THEN Strip(SubSeq(g, 1, Len(g) - 1))
    ELSE g

GenrePositions == UNION {{<<i, k>> : k \in 1..Len(Rows[i].genres)} : i \in 1..Len(Rows)}

(* C2: every element of every record's genres is a trimmed name, and in
   the Content Analysis view the count of a genre is the number of
   (record, position) occurrences of that trimmed name. *)
C2_GenresAreTrimmed ==
    Loaded =>
        /\ \A p \in GenrePositions : Trimmed(Rows[p[1]].genres[p[2]])
        /\ analysis_option = ContentAnalysis =>
               \A e \in {out.genre_counts[i] : i \in 1..Len(out.genre_counts)} :
                   e.count = Cardinality({p \in GenrePositions :
                                 Strip(Rows[p[1]].genres[p[2]]) = e.key})

Undated(cell) == cell = NaN \/ ~Parsable(cell)

SameButDate(prepared, raw) ==
    \A c \in RawColumns \ {"date_added"} : prepared[c] = raw[c]

DatedRows == {i \in 1..Len(Rows) : Rows[i].year_added # NaN}

(* C3: a file with a missing or unparsable date_added (and nothing else
   wrong) loads; each such record is kept with year_added and month_added
   undefined, is counted by the genre counts, and is counted by none of the
   three time-based aggregations. *)
C3_UndatedRecordsAreTolerated ==
    ( /\ loads > 0
      /\ \E i \in 1..Len(csv) : Undated(csv[i].date_added)
      /\ \A i \in 1..Len(csv) : csv[i].listed_in # NaN )
    =>
        /\ Loaded
        /\ \A i \in 1..Len(csv) :
               Undated(csv[i].date_added) =>
                   \E k \in 1..Len(Rows) :
                       /\ SameButDate(Rows[k], csv[i])
                       /\ Rows[k].year_added = NaN
                       /\ Rows[k].month_added = NaN
        /\ analysis_option = ContentAnalysis =>
               SumSeq(values(out.genre_counts)) = Cardinality(GenrePositions)
        /\ analysis_option = TrendsOverTime =>
               /\ SumSeq(values(out.yearly_trend)) = Cardinality(DatedRows)
               /\ SumSeq(values(out.monthly_trend)) = Cardinality(DatedRows)

(* The keys a top-N query counts, and how often each occurs, read from the
   table itself. *)
KeysOf(df, column) ==
    IF column = "genres"
    THEN UNION {{df.rows[i].genres[k] : k \in 1..Len(df.rows[i].genres)} :
                    i \in 1..Len(df.rows)}
    ELSE {df.rows[i][column] : i \in 1..Len(df.rows)} \ {NaStr}

KeyCount(df, column, key) ==
    IF column = "genres"
    THEN Cardinality(UNION {{<<i, k>> : k \in {m \in 1..Len(df.rows[i].genres) :
                                                  df.rows[i].genres[m] = key}} :
                                i \in 1..Len(df.rows)})
    ELSE Cardinality({i \in 1..Len(df.rows) : df.rows[i][column] = key})

(* res holds highest-count keys of `keys` with their counts, largest first. *)
HighestCounts(res, df, column, keys) ==
    /\ \A i \in 1..Len(res) :
           res[i].key \in keys /\ res[i].count = KeyCount(df, column, res[i].key)
    /\ Descending(res)
    /\ \A key \in keys \ {res[i].key : i \in 1..Len(res)} :
           \A i \in 1..Len(res) : res[i].count >= KeyCount(df, column, key)

(* C4 (as amended): value_counts().head(N) on ratings, genres, directors
   (before 'Unknown' is removed) and countries returns the highest-count
   keys, largest count first: min(N, number of distinct keys) of them for
   N >= 0 (none for N = 0), and for N < 0 all but the last -N of them. *)
C4_TopNOfAnyN ==
    out # NoOut =>
        LET keys == KeysOf(data, out.column)
        IN /\ Len(out.result) = IF out.n >= 0 THEN Min(out.n, Cardinality(keys))
                                ELSE Max(0, Cardinality(keys) + out.n)
           /\ HighestCounts(out.result, data, out.column, keys)

(* C4 (as claimed): an empty sequence for N <= 0, otherwise the
   min(N, number of distinct keys) highest-count keys, largest first. *)
C4_EmptyForNonPositiveN ==
    out # NoOut =>
        LET keys == KeysOf(data, out.column)
        IN /\ Len(out.result) = IF out.n <= 0 THEN 0 ELSE Min(out.n, Cardinality(keys))
           /\ HighestCounts(out.result, data, out.column, keys)

(* C4 witness: the top 5 of more than 5 genres, with unequal counts. *)
C4_Witness ==
    /\ out # NoOut
    /\ out.column = "genres"
    /\ out.n = SliderMin
    /\ Cardinality(KeysOf(data, "genres")) > SliderMin
    /\ Len(out.result) = SliderMin
    /\ out.result[1].count > out.result[SliderMin].count

(* C5: the director chart holds the DirectorTop most frequent directors
   other than 'Unknown' (all of them when there are fewer), largest count
   first, and never 'Unknown'. *)
C5_TopDirectorsWithoutUnknown ==
    (Loaded /\ analysis_option = DirectorsCreators) =>
        LET named == KeysOf(data, "director") \ {Unknown}
            res == out.director_counts
        IN /\ Len(res) = Min(DirectorTop, Cardinality(named))
           /\ HighestCounts(res, data, "director", named)

TwoTypes == {Movie, TVShow}

(* C6 (as amended): the type counts add up to the number of records whose
   type is not missing, and Movies + TV Shows is the number of records
   whose type is one of the two values; both are Total Content when every
   record's type is one of the two. *)
C6_TypeCountsCoverTypedRecords ==
    (Loaded /\ analysis_option = Overview) =>
        /\ out.total_content = Len(Rows)
        /\ SumSeq(values(out.type_counts))
               = Cardinality({i \in 1..Len(Rows) : Rows[i].type # NaStr})
        /\ out.movies_count + out.tv_shows_count
               = Cardinality({i \in 1..Len(Rows) : Rows[i].type \in TwoTypes})
        /\ (\A i \in 1..Len(Rows) : Rows[i].type \in TwoTypes) =>
               /\ SumSeq(values(out.type_counts)) = out.total_content
               /\ out.movies_count + out.tv_shows_count = out.total_content

(* C6 (as claimed): for every prepared table the type counts add up to
   len(data) and Movies + TV Shows = Total Content. *)
C6_TypeCountsSumToTotal ==
    (Loaded /\ analysis_option = Overview) =>
        /\ SumSeq(values(out.type_counts)) = Len(data.rows)
        /\ out.movies_count + out.tv_shows_count = out.total_content

(* C6 witness: the overview of a table with a movie and a TV show and no
   other type. *)
C6_Witness ==
    /\ Loaded
    /\ analysis_option = Overview
    /\ \A i \in 1..Len(Rows) : Rows[i].type \in TwoTypes
    /\ out.movies_count >= 1
    /\ out.tv_shows_count >= 1
    /\ out.total_content = out.movies_count + out.tv_shows_count

(* C7: a view of a table that is empty, or has no record of one of the two
   types, raises nothing. *)
C7_NoViewRaisesOnNoRows ==
    ( /\ Loaded
      /\ \E t \in TwoTypes : \A i \in 1..Len(Rows) : Rows[i].type # t )
    => error = ""

WithoutTitleLength(r) == [c \in LoadColumns |-> r[c]]

(* C8 (as amended): whatever views are selected, the stored prepared table
   stays the one load_data computed, and the table of every run has its
   records and its load-time columns unchanged; the only change a view
   makes is that Word Cloud Analysis adds the column title_length (computed
   there, not at load time) to the table of its own run. *)
C8_ViewsOnlyAddTitleLength ==
    Loaded =>
        /\ cache[1] = load_data(csv).df
        /\ "title_length" \notin cache[1].columns
        /\ Map(data.rows, WithoutTitleLength) = Map(Rows, WithoutTitleLength)
        /\ data.columns \in {LoadColumns, LoadColumns \cup {"title_length"}}
        /\ "title_length" \in data.columns <=>
               (analysis_option = WordCloudAnalysis /\ error = "")
        /\ "title_length" \in data.columns =>
               \A i \in 1..Len(data.rows) :
                   data.rows[i].title_length = str_len(data.rows[i].title)

(* C8 (as claimed): after load no view changes the table: it is the table
   load_data computed, title_length included. *)
C8_PreparedTableUnchanged ==
    Loaded => data = load_data(csv).df

(* C8 witness: the Word Cloud view has run on two or more records. *)
C8_Witness ==
    /\ Loaded
    /\ analysis_option = WordCloudAnalysis
    /\ error = ""
    /\ Len(data.rows) >= 2
    /\ "title_length" \in data.columns

(* C9: over any sequence of reruns the body of load_data runs once. *)
C9_LoadBodyRunsOnce == loads <= 1

(* C10: in Trends Over Time the bar labelled with month i shows the number
   of records added in month i, also for months without records. *)
C10_MonthlyBarsMatchMonths ==
    (Loaded /\ analysis_option = TrendsOverTime) =>
        /\ error = ""
        /\ Len(out.fig_monthly) = Len(months)
        /\ \A i \in 1..Len(months) :
               /\ out.fig_monthly[i].x = months[i]
               /\ out.fig_monthly[i].y
                      = Cardinality({k \in 1..Len(Rows) : Rows[k].month_added = <<i>>})

=============================================================================
